---- MODULE Spec2Model ----
(***************************************************************************)
(* Model of the similarity-ranking service in                              *)
(* src/10_flask-embedding-api/app.py: the bounded top-K heap, the          *)
(* exhaustive rankers (search, search_similar), the index rankers          *)
(* (index_search, index_search_similar), the startup block and the two     *)
(* request handlers.                                                       *)
(*                                                                         *)
(* Numbers.  Embeddings are 2-dimensional integer vectors.  A float is a   *)
(* record [kind, v]: kind "num" carries the fixed-point value v in units   *)
(* of 1/Scale, kind "nan" is IEEE NaN (every ordered comparison and ==     *)
(* with it is false), kind "arr" is a numpy array where a scalar was       *)
(* expected (float() of it raises).                                        *)
(***************************************************************************)
EXTENDS Integers, Sequences, FiniteSets, TLC

VARIABLES
    \* the collector on its own (SpecHeap)
    cap,            \* max_length of the run
    cheap,          \* the heap list
    offered,        \* the items offered so far, in order
    drained,        \* <<list>> once sorted and stripped, <<>> before
    \* one ranking call, run through both paths (SpecRank)
    catalog,        \* the embedding store: appid -> embeddings per type
    call,           \* the arguments of the call
    rpc,            \* where the call is
    cands,          \* the candidates the exhaustive loops still visit
    matches,        \* the exhaustive path's heap
    exh,            \* the exhaustive path's outcome
    knn,            \* what the index path asked of each index and got
    idx,            \* the index path's outcome
    \* the server (Spec)
    spc,            \* the startup block's position
    db_has_indexes, \* sqlite_helpers.database_has_indexes_available(conn)
    description_index,
    review_index,
    embedding_instruction,  \* instructor_model.embedding_instruction
    req             \* per worker thread: the request it handles

heapVars == <<cap, cheap, offered, drained>>

rankVars == <<catalog, call, rpc, cands, matches, exh, knn, idx>>

serverVars == <<spc, db_has_indexes, description_index, review_index,
                embedding_instruction, req>>

vars == <<heapVars, rankVars, serverVars>>

(* ------------------------------ bounds -------------------------------- *)

\* Largest max_results / heap capacity a call is made with.
MaxResults == 2

\* Fixed-point resolution of a float: 1.0 is Scale units.
Scale == 10

\* Number of add_to_heap calls of one collector run (SpecHeap).
MaxOffers == 4

\* Largest score offered to the collector in SpecHeap.
MaxScore == 2

(* --------------------------- floats, vectors -------------------------- *)

Min(a, b) == IF a < b THEN a ELSE b

Num(v) == [kind |-> "num", v |-> v]

NaN == [kind |-> "nan", v |-> 0]

NaNArray == [kind |-> "arr", v |-> 0]

\* Python's a < b, a > b, a == b on floats.
FloatLT(a, b) == a.kind = "num" /\ b.kind = "num" /\ a.v < b.v

FloatGT(a, b) == FloatLT(b, a)

FloatEQ(a, b) == a.kind = "num" /\ b.kind = "num" /\ a.v = b.v

\* The literal 1.0 of "1.0 - distance".
One == Scale

\* A numpy value: a 1-d array c/n (integer numerators over a common
\* denominator), or the 0-d scalar nan (dim 0).
Arr(c, n) == [dim |-> 1, c |-> c, n |-> n]

NaNScalar == [dim |-> 0, c |-> <<0, 0>>, n |-> 0]

\* A stored embedding <<x, y>> as a numpy array.
AsArray(e) == Arr(e, 1)

RECURSIVE VecSum(_)
VecSum(embs) ==
    IF embs = <<>> THEN <<0, 0>>
    ELSE LET r == VecSum(Tail(embs))
         IN  <<Head(embs)[1] + r[1], Head(embs)[2] + r[2]>>

Dot(a, b) == a[1] * b[1] + a[2] * b[2]

\* floor(Scale * p / sqrt(m)) for m > 0 and p*p <= m: the fixed-point value
\* of the quotient dot / (norm * norm).
QuotQ(p, m) ==
    LET ok(c) == IF p >= 0
                 THEN c < 0 \/ c * c * m <= Scale * Scale * p * p
                 ELSE c < 0 /\ c * c * m >= Scale * Scale * p * p
        S == {c \in (0 - Scale)..Scale : ok(c)}
    IN  CHOOSE c \in S : \A d \in S : d <= c

\* np.sum(embeddings, axis=0) / len(embeddings); of the empty list, 0.0 / 0.
mean_pooling(embs) ==
    IF embs = <<>> THEN NaNScalar ELSE Arr(VecSum(embs), Len(embs))

\* np.dot(a, b) / (np.linalg.norm(a) * np.linalg.norm(b)).  A zero norm
\* gives 0.0 / 0.0, which numpy evaluates to nan; a 0-d nan operand
\* broadcasts to an array of nan.
cosine_similarity(a, b) ==
    IF a.dim = 0 \/ b.dim = 0 THEN NaNArray
    ELSE IF Dot(a.c, a.c) = 0 \/ Dot(b.c, b.c) = 0 THEN NaN
    ELSE Num(QuotQ(Dot(a.c, b.c), Dot(a.c, a.c) * Dot(b.c, b.c)))

\* Python's max over a non-empty list: the first item is kept unless a
\* later one compares greater.
RECURSIVE PyMax(_, _)
PyMax(best, rest) ==
    IF rest = <<>> THEN best
    ELSE PyMax(IF FloatGT(Head(rest), best) THEN Head(rest) ELSE best, Tail(rest))

\* max of the cosine of each embedding with the query.  With a 0-d nan
\* query every similarity is an array: max() of two arrays raises and
\* float() of one raises, so the caller sees an array either way.
compare_all_embeddings_take_max(embeddings, query_embed) ==
    LET sims == [i \in 1..Len(embeddings) |->
                    cosine_similarity(AsArray(embeddings[i]), query_embed)]
    IN  IF \E i \in 1..Len(sims) : sims[i].kind = "arr" THEN NaNArray
        ELSE PyMax(sims[1], Tail(sims))

(* ------------------------------- heapq -------------------------------- *)

\* Python's < on the heap tuples (score, random, dict): the first element
\* that is not == decides.  random.random() draws are distinct within one
\* heap, so the dicts are never compared.
TupleLT(a, b) ==
    IF ~FloatEQ(a.score, b.score) THEN FloatLT(a.score, b.score)
    ELSE a.r < b.r

\* heapq._siftdown(heap, startpos, pos), positions 1-based.
RECURSIVE SiftDownLoop(_, _, _, _)
SiftDownLoop(heap, startpos, pos, newitem) ==
    IF pos > startpos /\ TupleLT(newitem, heap[pos \div 2])
    THEN SiftDownLoop([heap EXCEPT ![pos] = heap[pos \div 2]], startpos,
                      pos \div 2, newitem)
    ELSE [heap EXCEPT ![pos] = newitem]

siftdown(heap, startpos, pos) == SiftDownLoop(heap, startpos, pos, heap[pos])

\* heapq._siftup(heap, pos): the smaller child moves up until a leaf is
\* reached, then the item is sifted down from there.
RECURSIVE SiftUpLoop(_, _, _, _)
SiftUpLoop(heap, startpos, pos, newitem) ==
    LET childpos == 2 * pos
        rightpos == childpos + 1
        c == IF rightpos <= Len(heap) /\ ~TupleLT(heap[childpos], heap[rightpos])
             THEN rightpos ELSE childpos
    IN  IF childpos <= Len(heap)
        THEN SiftUpLoop([heap EXCEPT ![pos] = heap[c]], startpos, c, newitem)
        ELSE siftdown([heap EXCEPT ![pos] = newitem], startpos, pos)

siftup(heap, pos) == SiftUpLoop(heap, pos, pos, heap[pos])

heappush(heap, item) == siftdown(Append(heap, item), 1, Len(heap) + 1)

\* The heap after heapq.heappop(heap).
heappop(heap) ==
    LET lastelt == heap[Len(heap)]
        rest    == SubSeq(heap, 1, Len(heap) - 1)
    IN  IF rest = <<>> THEN rest
        ELSE siftup([rest EXCEPT ![1] = lastelt], 1)

HeapEntry(item, r) == [score |-> item.score, r |-> r, item |-> item]

\* add_to_heap(heap, item_to_add, max_length) with r the random.random() draw.
add_to_heap(heap, item_to_add, r, max_length) ==
    LET pushed == heappush(heap, HeapEntry(item_to_add, r))
    IN  IF Len(pushed) > max_length THEN heappop(pushed) ELSE pushed

\* The random.random() draws: distinct from the draws held in the heap.
Tiebreaks == 1..(MaxResults + 1)

FreshDraws(heap) == Tiebreaks \ {heap[i].r : i \in 1..Len(heap)}

(* ------------------------------ sorting ------------------------------- *)

\* list.sort(key=score, reverse=True) / sorted(...): stable, descending.
\* x goes after every element whose score is not smaller than x's.
RECURSIVE InsertDesc(_, _)
InsertDesc(sorted, x) ==
    IF sorted = <<>> THEN <<x>>
    ELSE IF FloatLT(Head(sorted).score, x.score)
         THEN <<x>> \o sorted
         ELSE <<Head(sorted)>> \o InsertDesc(Tail(sorted), x)

RECURSIVE StableSortDesc(_, _)
StableSortDesc(done, todo) ==
    IF todo = <<>> THEN done
    ELSE StableSortDesc(InsertDesc(done, Head(todo)), Tail(todo))

\* The orders list.sort can leave the list in.  With comparable keys the
\* sort is the stable one; a nan key makes the comparisons inconsistent and
\* the outcome depends on the sort's internals: any order of the items.
SortOutcomes(list) ==
    IF \A i \in 1..Len(list) : list[i].score.kind = "num"
    THEN {StableSortDesc(<<>>, list)}
    ELSE {[i \in 1..Len(list) |-> list[p[i]]] : p \in Permutations(1..Len(list))}

\* [match[2] for match in matches]
StripHeap(list) == [i \in 1..Len(list) |-> list[i].item]

(* ------------------------ the embedding store ------------------------- *)

Appids == {1, 2, 3}

E1 == <<1, 0>>

E2 == <<0, 1>>

Diag == <<1, 1>>

Zero == <<0, 0>>

\* What one entity may own: description passages and review embeddings.
Profiles ==
    { [description |-> <<E1>>,     review |-> <<E1>>],
      [description |-> <<Diag>>,   review |-> <<E2>>],
      [description |-> <<E1, E2>>, review |-> <<E1, <<-1, 0>>>>],
      [description |-> <<Zero>>,   review |-> <<>>],
      [description |-> <<>>,       review |-> <<Diag>>] }

Catalogs == [Appids -> Profiles]

\* The free-text query embeddings.
QueryVectors == {E1, Diag}

Types == {"description", "review"}

\* query_for_type == 'all' or query_for_type == t
Requested(query_for_type, t) == query_for_type = "all" \/ query_for_type = t

\* sqlite_helpers.get_name_for_appid(conn, appid)
get_name_for_appid(appid) == <<"name", appid>>

\* The appids of S in ascending order.
RECURSIVE Ascending(_)
Ascending(S) ==
    IF S = {} THEN <<>>
    ELSE LET a == CHOOSE x \in S : \A y \in S : x <= y
         IN  <<a>> \o Ascending(S \ {a})

\* The appids the store holds embeddings of type t for.
AppidsWith(cat, t) == {a \in Appids : cat[a][t] # <<>>}

(* --------------------------- the ANN indexes -------------------------- *)

\* An index snapshot: one stored vector per entity that has embeddings of
\* the type, the mean of them.
BuildIndex(cat, t) ==
    [loaded |-> TRUE,
     vecs   |-> [a \in AppidsWith(cat, t) |-> mean_pooling(cat[a][t])]]

NoIndex == [loaded |-> FALSE, vecs |-> <<>>]

\* The index's cosine distance, 1 - cos; a zero vector stays zero when the
\* index normalises it, and the distance is 1.
IndexDistance(stored, q) ==
    IF Dot(stored.c, stored.c) = 0 \/ Dot(q.c, q.c) = 0 THEN One
    ELSE One - QuotQ(Dot(stored.c, q.c), Dot(stored.c, stored.c) * Dot(q.c, q.c))

\* index.knn_query(q, k) for a 1-d query: min(k, size) distinct entries by
\* ascending distance.  The index is approximate: which entries it returns
\* is its choice.
knn_query(index, q, k) ==
    LET ids == DOMAIN index.vecs
        n   == Min(k, Cardinality(ids))
        d(a) == IndexDistance(index.vecs[a], q)
    IN  { [i \in 1..n |-> [appid |-> f[i], distance |-> d(f[i])]] :
            f \in { g \in [1..n -> ids] :
                      /\ \A i, j \in 1..n : i # j => g[i] # g[j]
                      /\ \A i \in 1..(n - 1) : d(g[i]) <= d(g[i + 1]) } }

\* Whether rows are the true nearest neighbours: nothing left out is
\* strictly closer than something returned.
ExactRows(index, q, rows) ==
    \A a \in DOMAIN index.vecs :
        (\A i \in 1..Len(rows) : rows[i].appid # a) =>
            \A i \in 1..Len(rows) :
                rows[i].distance <= IndexDistance(index.vecs[a], q)

(* ---------------------------- index rankers --------------------------- *)

\* 'score': 1.0 - distance
DistanceToScore(distance) == Num(One - distance)

Match(appid, t, score) ==
    [appid |-> appid, name |-> get_name_for_appid(appid),
     match_type |-> t, score |-> score]

\* The exclusion test that excludes nothing.
IsQueryApp_never(appid, query_appid) == FALSE

\* if appid == query_appid: continue
IsQueryApp(appid, query_appid) == appid = query_appid

\* The for loop over zip(appids, distances) of index_search.
RowsToMatches(rows, t) ==
    [i \in 1..Len(rows) |-> Match(rows[i].appid, t, DistanceToScore(rows[i].distance))]

\* The for loop of index_search_similar, which skips the query's own row.
RowsToMatchesExcluding(rows, t, query_appid) ==
    LET Keep(row) == ~IsQueryApp(row.appid, query_appid)
    IN  RowsToMatches(SelectSeq(rows, Keep), t)

\* matches[:max_results] left out.
Truncate_none(list, max_results) == list

\* matches[:max_results]
Truncate(list, max_results) == SubSeq(list, 1, Min(max_results, Len(list)))

\* sorted(...) without reverse=True: ascending, stable.
RECURSIVE SortByScore_ascending(_)
SortByScore_ascending(list) ==
    IF list = <<>> THEN <<>>
    ELSE LET rest == SortByScore_ascending(SubSeq(list, 1, Len(list) - 1))
             x    == list[Len(list)]
             n    == Cardinality({i \in 1..Len(rest) : ~FloatLT(x.score, rest[i].score)})
         IN  SubSeq(rest, 1, n) \o <<x>> \o SubSeq(rest, n + 1, Len(rest))

\* sorted(matches, key=lambda x: x['score'], reverse=True)
SortByScore(list) == StableSortDesc(<<>>, list)

\* index_search's result from the rows the two indexes returned.
index_search(dRows, rRows, max_results) ==
    Truncate(SortByScore(RowsToMatches(dRows, "description")
                         \o RowsToMatches(rRows, "review")), max_results)

\* index_search_similar's result from the rows the two indexes returned.
index_search_similar(dRows, rRows, query_appid, max_results) ==
    Truncate(SortByScore(RowsToMatchesExcluding(dRows, "description", query_appid)
                         \o RowsToMatchesExcluding(rRows, "review", query_appid)),
             max_results)

\* k=max_results + 1
SimilarK(max_results) == max_results + 1

(* ------------------ one ranking call, both paths (SpecRank) ----------- *)

\* The comparison vector of the call for type t: the query embedding, or
\* the mean of the source entity's stored vectors of that type.
QueryEmbed(cat, c, t) ==
    IF c.fn = "search" THEN AsArray(c.q) ELSE mean_pooling(cat[c.q][t])

\* The candidates the exhaustive loops visit, in order: the description
\* pages, then the appids with review embeddings.
Candidates(cat, query_for_type) ==
    LET of(t) == IF Requested(query_for_type, t)
                 THEN [i \in 1..Cardinality(AppidsWith(cat, t)) |->
                          [type |-> t, appid |-> Ascending(AppidsWith(cat, t))[i]]]
                 ELSE <<>>
    IN  of("description") \o of("review")

\* The score search / search_similar computes for candidate cand.
CandidateScore(cat, cand, query_embed) ==
    IF cand.type = "description"
    THEN compare_all_embeddings_take_max(cat[cand.appid].description, query_embed)
    ELSE cosine_similarity(mean_pooling(cat[cand.appid].review), query_embed)

NotAsked == [asked |-> FALSE, q |-> NaNScalar, k |-> 0, rows |-> <<>>]

Asked(q, k, rows) == [asked |-> TRUE, q |-> q, k |-> k, rows |-> rows]

Pending == [status |-> "none", list |-> <<>>]

Returned(list) == [status |-> "ok", list |-> list]

Raised == [status |-> "raise", list |-> <<>>]

NoRank ==
    /\ catalog = <<>> /\ call = <<>> /\ rpc = "off" /\ cands = <<>>
    /\ matches = <<>> /\ exh = Pending /\ knn = <<>> /\ idx = Pending

NoServer ==
    /\ spc = "off" /\ db_has_indexes = FALSE /\ description_index = NoIndex
    /\ review_index = NoIndex /\ embedding_instruction = "" /\ req = <<>>

NoHeap == cap = 0 /\ cheap = <<>> /\ offered = <<>> /\ drained = <<>>

RankInit ==
    /\ catalog \in Catalogs
    /\ description_index = BuildIndex(catalog, "description")
    /\ review_index = BuildIndex(catalog, "review")
    /\ call = <<>> /\ rpc = "idle" /\ cands = <<>> /\ matches = <<>>
    /\ exh = Pending /\ idx = Pending
    /\ knn = [t \in Types |-> NotAsked]
    /\ NoHeap
    /\ spc = "off" /\ db_has_indexes = TRUE
    /\ embedding_instruction = "" /\ req = <<>>

rankRest == <<heapVars, catalog, spc, db_has_indexes, description_index,
              review_index, embedding_instruction, req>>

Functions == {"search", "search_similar", "index_search_similar"}

\* A call is made: search(query_embed, type, max_results),
\* search_similar(query_appid, type, max_results) or
\* index_search_similar(query_appid, type, max_results).  search is
\* followed by index_search on the same arguments.
BeginCall ==
    /\ rpc = "idle"
    /\ \E fn \in Functions, t \in {"all", "description", "review"},
          m \in 0..MaxResults :
         \E q \in (IF fn = "search" THEN QueryVectors ELSE Appids) :
            /\ call' = [fn |-> fn, q |-> q, type |-> t, max_results |-> m]
            /\ cands' = IF fn = "index_search_similar" THEN <<>>
                         ELSE Candidates(catalog, t)
            /\ rpc' = IF fn = "index_search_similar" THEN "index" ELSE "scan"
    /\ matches' = <<>>
    /\ exh' = Pending /\ idx' = Pending
    /\ knn' = [t \in Types |-> NotAsked]
    /\ UNCHANGED rankRest

\* One iteration of the exhaustive loops: skip the query's own entity,
\* else score the candidate and add it to the heap.  float(score) raises
\* when the score is an array.
ScanStep ==
    /\ rpc = "scan" /\ cands # <<>>
    /\ LET cand  == Head(cands)
           score == CandidateScore(catalog, cand, QueryEmbed(catalog, call, cand.type))
       IN  IF call.fn = "search_similar" /\ IsQueryApp(cand.appid, call.q)
           THEN /\ cands' = Tail(cands)
                /\ UNCHANGED <<matches, exh, rpc>>
           ELSE IF score.kind = "arr"
           THEN /\ exh' = Raised
                /\ rpc' = "done"
                /\ UNCHANGED <<cands, matches>>
           ELSE /\ \E r \in FreshDraws(matches) :
                     matches' = add_to_heap(matches, Match(cand.appid, cand.type, score),
                                            r, call.max_results)
                /\ cands' = Tail(cands)
                /\ UNCHANGED <<exh, rpc>>
    /\ UNCHANGED <<call, knn, idx, rankRest>>

\* The loops are over: sort the heap by score, strip, return.  The
\* stripped list replaces the heap list; exh holds it.
ScanReturn ==
    /\ rpc = "scan" /\ cands = <<>>
    /\ \E sorted \in SortOutcomes(matches) : exh' = Returned(StripHeap(sorted))
    /\ matches' = <<>>
    /\ rpc' = IF call.fn = "search" THEN "index" ELSE "done"
    /\ UNCHANGED <<call, cands, knn, idx, rankRest>>

\* index_search(query, type, max_results) on the same arguments.
IndexSearch ==
    /\ rpc = "index" /\ call.fn = "search"
    /\ LET q == AsArray(call.q)
           m == call.max_results
           answers(index, t) == IF Requested(call.type, t)
                                THEN {Asked(q, m, rows) : rows \in knn_query(index, q, m)}
                                ELSE {NotAsked}
       IN  \E d \in answers(description_index, "description"),
              r \in answers(review_index, "review") :
             /\ knn' = [description |-> d, review |-> r]
             /\ idx' = Returned(index_search(d.rows, r.rows, m))
    /\ rpc' = "done"
    /\ UNCHANGED <<call, cands, matches, exh, rankRest>>

\* index_search_similar(query_appid, type, max_results) on the same
\* arguments.  knn_query raises on a 0-d query, which ends the call.
IndexSearchSimilar ==
    /\ rpc = "index" /\ call.fn = "index_search_similar"
    /\ LET m == call.max_results
           k == SimilarK(m)
           qd == mean_pooling(catalog[call.q].description)
           qr == mean_pooling(catalog[call.q].review)
           answers(index, t, q) ==
               IF ~Requested(call.type, t) THEN {NotAsked}
               ELSE IF q.dim = 0 THEN {Asked(q, k, <<>>)}
               ELSE {Asked(q, k, rows) : rows \in knn_query(index, q, k)}
       IN  \E d \in answers(description_index, "description", qd),
              r \in answers(review_index, "review", qr) :
             IF d.asked /\ d.q.dim = 0
             THEN /\ knn' = [description |-> d, review |-> NotAsked]
                  /\ idx' = Raised
             ELSE IF r.asked /\ r.q.dim = 0
             THEN /\ knn' = [description |-> d, review |-> r]
                  /\ idx' = Raised
             ELSE /\ knn' = [description |-> d, review |-> r]
                  /\ idx' = Returned(index_search_similar(d.rows, r.rows, call.q, m))
    /\ rpc' = "done"
    /\ UNCHANGED <<call, cands, matches, exh, rankRest>>

\* The caller takes the result; the next call starts from scratch.
EndCall ==
    /\ rpc = "done"
    /\ rpc' = "idle"
    /\ call' = <<>> /\ cands' = <<>> /\ matches' = <<>>
    /\ exh' = Pending /\ idx' = Pending
    /\ knn' = [t \in Types |-> NotAsked]
    /\ UNCHANGED rankRest

RankNext ==
    BeginCall \/ ScanStep \/ ScanReturn \/ IndexSearch \/ IndexSearchSimilar \/ EndCall

SpecRank == RankInit /\ [][RankNext]_vars

(* --------------------- properties of the rankers ---------------------- *)

IndexReturned(fn) == rpc = "done" /\ call.fn = fn /\ idx.status = "ok"

AppidsOf(list) == {list[i].appid : i \in 1..Len(list)}

\* The matches of type t that the index path appended before sorting.
PerType(t) ==
    IF call.fn = "search" THEN RowsToMatches(knn[t].rows, t)
    ELSE RowsToMatchesExcluding(knn[t].rows, t, call.q)

OfType(list, t) ==
    LET Is(mt) == mt.match_type = t
    IN  SelectSeq(list, Is)

IsPrefix(a, b) == Len(a) <= Len(b) /\ a = SubSeq(b, 1, Len(a))

NonIncreasing(list) ==
    \A i \in 1..(Len(list) - 1) : list[i].score.v >= list[i + 1].score.v

\* C1: the list entity-similarity ranking returns for source entity X,
\* by the index (index_search_similar) or by the exhaustive scan
\* (search_similar), holds no match whose appid is X; nor does the heap.
C1_SelfExclusion ==
    (rpc # "idle" /\ call.fn \in {"search_similar", "index_search_similar"}) =>
        /\ call.q \notin AppidsOf(idx.list)
        /\ call.q \notin AppidsOf(exh.list)
        /\ \A i \in 1..Len(matches) : matches[i].item.appid # call.q

\* X has embeddings of a requested type, the index returned X's own row,
\* and the call returned other entities.
C1_Witness ==
    /\ IndexReturned("index_search_similar")
    /\ \E t \in Types :
         /\ Requested(call.type, t) /\ catalog[call.q][t] # <<>>
         /\ \E i \in 1..Len(knn[t].rows) : knn[t].rows[i].appid = call.q
    /\ idx.list # <<>>

\* C3: the list index_search and index_search_similar return is at most
\* max_results long and ordered by score, highest first; it holds the
\* max_results highest-scored entries of the per-type lists together.
C3_BoundedSorted ==
    (rpc = "done" /\ call.fn \in {"search", "index_search_similar"}
        /\ idx.status = "ok") =>
        LET out == idx.list
            all == PerType("description") \o PerType("review")
            in(x) == \E i \in 1..Len(out) : out[i] = x
        IN  /\ Len(out) <= call.max_results
            /\ NonIncreasing(out)
            /\ Len(out) = Min(call.max_results, Len(all))
            /\ \A i \in 1..Len(out) : \E j \in 1..Len(all) : all[j] = out[i]
            /\ \A i, j \in 1..Len(out) : i # j => out[i] # out[j]
            /\ \A j \in 1..Len(all) :
                 ~in(all[j]) => \A i \in 1..Len(out) : out[i].score.v >= all[j].score.v

\* Type 'all', both indexes answered, and the merge had to cut.
C3_Witness ==
    /\ IndexReturned("search")
    /\ call.type = "all" /\ call.max_results >= 1
    /\ knn["description"].rows # <<>> /\ knn["review"].rows # <<>>
    /\ Len(knn["description"].rows) + Len(knn["review"].rows) > call.max_results
    /\ \E i \in 1..Len(idx.list) : idx.list[i].match_type = "review"

\* C4: in entity-similarity mode a requested type the source entity has no
\* vectors of is skipped: the call still returns a list, and no index is
\* queried with a vector aggregated from zero inputs.
C4_MissingTypeSkipped ==
    (rpc = "done" /\ call.fn = "index_search_similar") =>
        /\ idx.status = "ok"
        /\ \A t \in Types : knn[t].asked => knn[t].q.dim # 0

\* C6: the list index_search and index_search_similar return holds each
\* appid at most once.
C6_NoDuplicateAppid ==
    (rpc = "done" /\ idx.status = "ok") =>
        \A i, j \in 1..Len(idx.list) :
            i # j => idx.list[i].appid # idx.list[j].appid

\* Every entity owns at most one vector per type.
SingleVector(cat) ==
    \A a \in Appids, t \in Types : Len(cat[a][t]) <= 1

\* C7: on a store of single-vector entities and the same query, with the
\* indexes returning the true nearest neighbours by ascending distance,
\* index_search and search return the same top entity and their result
\* sets differ in at most one entity.
C7_PathsAgree ==
    (/\ IndexReturned("search") /\ exh.status = "ok"
     /\ SingleVector(catalog)
     /\ \A t \in Types :
          knn[t].asked =>
            ExactRows(IF t = "description" THEN description_index ELSE review_index,
                      knn[t].q, knn[t].rows)) =>
        /\ (idx.list # <<>> /\ exh.list # <<>>) => idx.list[1].appid = exh.list[1].appid
        /\ Cardinality(AppidsOf(idx.list) \ AppidsOf(exh.list)) <= 1
        /\ Cardinality(AppidsOf(exh.list) \ AppidsOf(idx.list)) <= 1

\* C9: no match with an undefined (nan) score is ever offered to the heap
\* of the exhaustive ranker or returned by it.
C9_NoNaNScore ==
    /\ \A i \in 1..Len(matches) : matches[i].score.kind # "nan"
    /\ \A i \in 1..Len(exh.list) : exh.list[i].score.kind # "nan"

\* C10: index_search_similar asks each requested index for
\* max_results + 1 neighbours; the entries of one type that reach the
\* output are at most max_results, a prefix of that index's answer less
\* the query's own row; and the output is the one obtained by cutting each
\* per-type list to max_results before the merge.
C10_OverFetch ==
    IndexReturned("index_search_similar") =>
        /\ \A t \in Types :
             /\ knn[t].asked = Requested(call.type, t)
             /\ knn[t].asked => knn[t].k = call.max_results + 1
             /\ Len(OfType(idx.list, t)) <= call.max_results
             /\ IsPrefix(OfType(idx.list, t), PerType(t))
        /\ idx.list = Truncate(SortByScore(
                          Truncate(PerType("description"), call.max_results)
                          \o Truncate(PerType("review"), call.max_results)),
                        call.max_results)

\* The query's entity was not among the neighbours an index returned, so
\* that type's list is one longer than max_results before the merge.
C10_Witness ==
    /\ IndexReturned("index_search_similar")
    /\ call.max_results >= 1
    /\ \E t \in Types :
         /\ knn[t].asked
         /\ Len(PerType(t)) = call.max_results + 1
         /\ OfType(idx.list, t) # <<>>

(* ----------------------------- the server ---------------------------- *)

\* The worker threads that may each be inside a handler.
Threads == {1, 2}

\* request.args.get(...) of a parameter the URL does not carry.
Absent == "<absent>"

\* The 'query' values sent, and int(query) where it parses.
QueryArgs == {Absent, "2", "rpg", "open world space trading"}

IntOf == ("2" :> 2) @@ ("1" :> 1)

IsInt(str) == str \in DOMAIN IntOf

TypeArgs == {Absent, "review", "genre"}

InstructionArgs == {Absent, "Represent a long game review for retrieval:"}

NumResultsArgs == {Absent, "1"}

DefaultInstruction == "Represent a video game that has a description of:"

DefaultNumResults == 10

MaxNumResults == 100

Max(a, b) == IF a > b THEN a ELSE b

\* num_results = max(0, min(num_results, 100)), 10 when not given.
ClampNumResults(arg) ==
    Max(0, Min(IF arg = Absent THEN DefaultNumResults ELSE IntOf[arg], MaxNumResults))

\* The embedding model: the token count of a query, the room the current
\* instruction leaves for it, and the embedding of a query under an
\* instruction.
TokenLen(query) == IF query = "open world space trading" THEN 4 ELSE 1

MaxQueryChunkLength(instruction) ==
    IF instruction = DefaultInstruction THEN 4 ELSE 3

generate_embedding_for_query(query, instruction) ==
    IF instruction = DefaultInstruction
    THEN (IF query = "rpg" THEN E1 ELSE Diag)
    ELSE (IF query = "rpg" THEN E2 ELSE <<1, 2>>)

\* The store the server's database holds.
ServerCatalog ==
    <<[description |-> <<E1>>,   review |-> <<E1>>],
      [description |-> <<Diag>>, review |-> <<E2>>],
      [description |-> <<E1, E2>>, review |-> <<>>]>>

Idle ==
    [pc |-> "idle", query |-> Absent, type |-> Absent,
     instruction |-> Absent, num_results |-> 0, query_embed |-> Zero,
     status |-> 0, results |-> <<>>, path |-> ""]

ServerInit ==
    /\ spc = "start"
    /\ db_has_indexes \in BOOLEAN
    /\ description_index = NoIndex /\ review_index = NoIndex
    /\ embedding_instruction = ""
    /\ req = [t \in Threads |-> Idle]
    /\ catalog = ServerCatalog
    /\ call = <<>> /\ rpc = "off" /\ cands = <<>> /\ matches = <<>>
    /\ exh = Pending /\ knn = <<>> /\ idx = Pending
    /\ NoHeap

serverRest == <<heapVars, rankVars>>

\* instructor_model = InstructorModel(instructor_model_name)
LoadModel ==
    /\ spc = "start"
    /\ spc' = "indexes"
    /\ UNCHANGED <<db_has_indexes, description_index, review_index,
                   embedding_instruction, req, serverRest>>

\* Startup goes on to serve without indexes.
NoIndexesOutcome_serve == "serving"

\* print("No indexes found, exiting..."); exit(1)
NoIndexesOutcome == "exited"

\* if database_has_indexes_available(conn): load both indexes; else exit.
LoadIndexes ==
    /\ spc = "indexes"
    /\ IF db_has_indexes
       THEN /\ description_index' = BuildIndex(catalog, "description")
            /\ review_index' = BuildIndex(catalog, "review")
            /\ spc' = "serving"
       ELSE /\ spc' = NoIndexesOutcome
            /\ UNCHANGED <<description_index, review_index>>
    /\ UNCHANGED <<db_has_indexes, embedding_instruction, req, serverRest>>

\* The response is built; the handler's locals are dead from here on.
Respond(r, status, results) ==
    [Idle EXCEPT !.pc = "responded", !.path = r.path,
                 !.status = status, !.results = results]

\* Where a request goes.  get_results: 400 without a query,
\* get_similar_games when int(query) parses, get_query_results otherwise.
Dispatch(route, r) ==
    IF route = "get_results"
    THEN IF r.query = Absent THEN Respond(r, 400, <<>>)
         ELSE IF IsInt(r.query) THEN [r EXCEPT !.pc = "similar"]
         ELSE [r EXCEPT !.pc = "query"]
    ELSE IF route = "get_similar_games" THEN [r EXCEPT !.pc = "similar"]
    ELSE [r EXCEPT !.pc = "query"]

\* A request arrives on a route of the running server and is dispatched.
\* Only the parameters the handler reads are kept: get_similar_games reads
\* query and num_results.  (get_query_results is always given a query.)
Receive(t) ==
    /\ spc = "serving"
    /\ req[t].pc = "idle"
    /\ \E route \in {"get_results", "get_query_results", "get_similar_games"},
          query \in QueryArgs, type \in TypeArgs,
          instruction \in InstructionArgs, num \in NumResultsArgs :
         LET r == Dispatch(route,
                           [Idle EXCEPT !.query = query, !.type = type,
                                        !.instruction = instruction,
                                        !.num_results = ClampNumResults(num)])
         IN  /\ route = "get_query_results" => query # Absent
             /\ req' = [req EXCEPT ![t] =
                    IF r.pc = "query" THEN r
                    ELSE IF r.pc = "similar"
                    THEN [r EXCEPT !.type = Absent, !.instruction = Absent]
                    ELSE r]
    /\ UNCHANGED <<spc, db_has_indexes, description_index, review_index,
                   embedding_instruction, serverRest>>

\* get_query_results up to the tokenizer: the type check and the defaults.
QueryValidate(t) ==
    /\ req[t].pc = "query"
    /\ LET r    == req[t]
           type == IF r.type = Absent THEN "all" ELSE r.type
           ins  == IF r.instruction = Absent THEN DefaultInstruction ELSE r.instruction
       IN  req' = [req EXCEPT ![t] =
                IF type \notin {"all", "description", "review"}
                THEN Respond(r, 400, <<>>)
                ELSE [r EXCEPT !.pc = "set_instruction", !.type = type,
                               !.instruction = ins]]
    /\ UNCHANGED <<spc, db_has_indexes, description_index, review_index,
                   embedding_instruction, serverRest>>

\* instructor_model.embedding_instruction = instruction
SetInstruction(t) ==
    /\ req[t].pc = "set_instruction"
    /\ embedding_instruction' = req[t].instruction
    /\ req' = [req EXCEPT ![t].pc = "check_length"]
    /\ UNCHANGED <<spc, db_has_indexes, description_index, review_index, serverRest>>

\* if len(query_tokenized) > instructor_model.get_max_query_chunk_length()
CheckLength(t) ==
    /\ req[t].pc = "check_length"
    /\ req' = [req EXCEPT ![t] =
            IF TokenLen(@.query) > MaxQueryChunkLength(embedding_instruction)
            THEN Respond(@, 400, <<>>)
            ELSE [@ EXCEPT !.pc = "embed"]]
    /\ UNCHANGED <<spc, db_has_indexes, description_index, review_index,
                   embedding_instruction, serverRest>>

\* query_embed = instructor_model.generate_embedding_for_query(query)
Embed(t) ==
    /\ req[t].pc = "embed"
    /\ req' = [req EXCEPT ![t].pc = "search",
                          ![t].query_embed =
                              generate_embedding_for_query(req[t].query,
                                                           embedding_instruction)]
    /\ UNCHANGED <<spc, db_has_indexes, description_index, review_index,
                   embedding_instruction, serverRest>>

\* results = index_search(conn, query_embed, type, max_results=num_results)
QueryRanker == "index_search"

\* get_query_results from the search to the response.
QuerySearch(t) ==
    /\ req[t].pc = "search"
    /\ LET r == req[t]
           q == AsArray(r.query_embed)
           rows(index, ty) == IF Requested(r.type, ty)
                              THEN knn_query(index, q, r.num_results)
                              ELSE {<<>>}
       IN  IF ~description_index.loaded \/ ~review_index.loaded
           THEN req' = [req EXCEPT ![t] = Respond([r EXCEPT !.path = QueryRanker], 500, <<>>)]
           ELSE \E d \in rows(description_index, "description"),
                   v \in rows(review_index, "review") :
                  req' = [req EXCEPT ![t] =
                      Respond([r EXCEPT !.path = QueryRanker], 200,
                              index_search(d, v, r.num_results))]
    /\ UNCHANGED <<spc, db_has_indexes, description_index, review_index,
                   embedding_instruction, serverRest>>

\* get_similar_games: int(query), then index_search_similar(appid, 'all',
\* num_results); an exception becomes a 500.
SimilarSearch(t) ==
    /\ req[t].pc = "similar"
    /\ LET r == [req[t] EXCEPT !.path = "index_search_similar", !.type = "all"]
           k == SimilarK(r.num_results)
       IN  IF ~IsInt(r.query) \/ IntOf[r.query] \notin Appids
              \/ ~description_index.loaded \/ ~review_index.loaded
           THEN req' = [req EXCEPT ![t] = Respond(r, 500, <<>>)]
           ELSE LET x  == IntOf[r.query]
                    qd == mean_pooling(catalog[x].description)
                    qr == mean_pooling(catalog[x].review)
                IN  IF qd.dim = 0 \/ qr.dim = 0
                    THEN req' = [req EXCEPT ![t] = Respond(r, 500, <<>>)]
                    ELSE \E d \in knn_query(description_index, qd, k),
                            v \in knn_query(review_index, qr, k) :
                           req' = [req EXCEPT ![t] =
                               Respond(r, 200,
                                       index_search_similar(d, v, x, r.num_results))]
    /\ UNCHANGED <<spc, db_has_indexes, description_index, review_index,
                   embedding_instruction, serverRest>>

\* The response is sent; the thread is free again.
Finish(t) ==
    /\ req[t].pc = "responded"
    /\ req' = [req EXCEPT ![t] = Idle]
    /\ UNCHANGED <<spc, db_has_indexes, description_index, review_index,
                   embedding_instruction, serverRest>>

Next ==
    \/ LoadModel
    \/ LoadIndexes
    \/ \E t \in Threads :
         \/ Receive(t)
         \/ QueryValidate(t)
         \/ SetInstruction(t)
         \/ CheckLength(t)
         \/ Embed(t)
         \/ QuerySearch(t)
         \/ SimilarSearch(t)
         \/ Finish(t)

Spec == ServerInit /\ [][Next]_vars

(* --------------------- properties of the server ----------------------- *)

\* C5: whatever the interleaving, a request's query embedding is the one
\* its own query and instruction give, and its query passed the length
\* check under its own instruction.
C5_QueryIndependent ==
    \A t \in Threads :
        /\ req[t].pc = "search" =>
             req[t].query_embed =
                generate_embedding_for_query(req[t].query, req[t].instruction)
        /\ req[t].pc \in {"embed", "search"} =>
             TokenLen(req[t].query) <= MaxQueryChunkLength(req[t].instruction)

\* C8: without a usable index snapshot the process exits during startup
\* and never serves; whenever a handler runs both indexes are loaded, and
\* no response comes from the exhaustive rankers.
C8_IndexesAtStartup ==
    /\ ~db_has_indexes => spc \in {"start", "indexes", "exited"}
    /\ spc # "serving" => \A t \in Threads : req[t].pc = "idle"
    /\ \A t \in Threads :
         req[t].pc # "idle" =>
            /\ description_index.loaded /\ review_index.loaded
            /\ req[t].path \in {"", "index_search", "index_search_similar"}

\* The database reported no indexes and startup ended the process.
C8_Witness == spc = "exited" /\ ~db_has_indexes /\ ~description_index.loaded

(* ------------------- the collector on its own (SpecHeap) -------------- *)

HeapInit ==
    /\ cap \in 0..MaxResults
    /\ cheap = <<>> /\ offered = <<>> /\ drained = <<>>
    /\ NoRank /\ NoServer

\* One add_to_heap(cheap, item, cap) call.  The score is whatever
\* compare_all_embeddings_take_max hands to search: a number, or nan when
\* an operand of cosine_similarity has zero norm.
Offer ==
    /\ drained = <<>>
    /\ Len(offered) < MaxOffers
    /\ \E sc \in {Num(s) : s \in 0..MaxScore} \cup {NaN}, r \in FreshDraws(cheap) :
         LET item == [appid |-> Len(offered) + 1, score |-> sc]
         IN  /\ cheap' = add_to_heap(cheap, item, r, cap)
             /\ offered' = Append(offered, item)
    /\ UNCHANGED <<cap, drained, rankVars, serverVars>>

\* matches.sort(key=lambda x: x[0], reverse=True); strip to the payloads.
Drain ==
    /\ drained = <<>>
    /\ \E sorted \in SortOutcomes(cheap) : drained' = <<StripHeap(sorted)>>
    /\ UNCHANGED <<cap, cheap, offered, rankVars, serverVars>>

HeapNext == Offer \/ Drain

SpecHeap == HeapInit /\ [][HeapNext]_vars

\* Number of items of list with score value s.
CountScore(list, s) == Cardinality({i \in 1..Len(list) : list[i].score = Num(s)})

\* Number of items of list whose score is a number / is nan.
CountNum(list) == Cardinality({i \in 1..Len(list) : list[i].score.kind = "num"})

CountNaN(list) == Cardinality({i \in 1..Len(list) : list[i].score.kind # "num"})

\* C2: after any sequence of add_to_heap calls with capacity cap the heap
\* holds at most cap items; the drained list is sorted by score descending
\* and its scores are the cap highest among the scores offered (an
\* undefined score is never among the highest while a number is left out).
C2_TopK ==
    /\ Len(cheap) <= cap
    /\ drained # <<>> =>
         LET out == drained[1]
         IN  /\ Len(out) = Min(cap, Len(offered))
             /\ \A i \in 1..(Len(out) - 1) :
                  ~FloatLT(out[i].score, out[i + 1].score)
             /\ CountNaN(out) > 0 => CountNum(out) = CountNum(offered)
             /\ \A s \in 0..MaxScore :
                  /\ CountScore(out, s) <= CountScore(offered, s)
                  /\ CountScore(out, s) < CountScore(offered, s) =>
                       \A i \in 1..Len(out) : FloatGT(out[i].score, Num(s))
                                                \/ out[i].score = Num(s)

\* C2 restricted to runs in which every offered score is a number: the
\* collector then keeps exactly the cap highest.
C2_TopK_Ordered == (CountNaN(offered) = 0) => C2_TopK

====
